---- MODULE Spec2Model ----
(***************************************************************************)
(* Precious-metal price collector of the Bank of Russia (src/metals.py):   *)
(* the range chunker, the collection run with its retries, the row parser, *)
(* the gap filler, the JSON store and the query facade.                    *)
(*                                                                         *)
(* Text is a sequence of one-character strings, a date is its proleptic    *)
(* Gregorian ordinal (Python's date.toordinal()), a Decimal is the triple  *)
(* sign / coefficient / exponent that the decimal module keeps.            *)
(***************************************************************************)
EXTENDS Integers, Sequences, FiniteSets, TLC

VARIABLES
    pc,            \* position of the operation in progress
    start_date,    \* _quarter_ranges / start: first day of the span
    end_date,      \* _quarter_ranges / start: last day of the span (date.today())
    ranges,        \* the (from, to) pairs _quarter_ranges returned
    idx,           \* start: index of the chunk being fetched
    attempt,       \* _get_soup: failed attempts made for the current chunk
    raw,           \* start / _fill_data_gaps: the sparse series
    log,           \* every request sent, in order: [chunk, try, ok, soup]
    result,        \* what start() returned
    soup,          \* _parse_chunk: the response document
    chunk,         \* _parse_chunk: the records it returned
    data,          \* ParserCBRF.data: the dense series
    filled_dates,  \* _fill_data_gaps: the synthesized dates
    file,          \* parsed_data/metal_prices.json
    db,            \* MetalPricesCBRF.data
    d_from,        \* query: first date typed
    d_to,          \* query: second date typed
    out            \* query: what the facade returned

vars == <<pc, start_date, end_date, ranges, idx, attempt, raw, log, result, soup,
          chunk, data, filled_dates, file, db, d_from, d_to, out>>

(***************************************************************************)
(* Characters and text                                                     *)
(***************************************************************************)
Digits == <<"0", "1", "2", "3", "4", "5", "6", "7", "8", "9">>

IsDigit(c) == \E i \in 1..10 : Digits[i] = c

DigitVal(c) == (CHOOSE i \in 1..10 : Digits[i] = c) - 1

\* Code point of a character: the order Python compares str by.
Ord(c) ==
    CASE c = " " -> 32
      [] c = "+" -> 43
      [] c = "," -> 44
      [] c = "-" -> 45
      [] c = "." -> 46
      [] IsDigit(c) -> 48 + DigitVal(c)
      [] c = "E" -> 69
      [] c = "e" -> 101
      [] OTHER -> 120

\* s < t for two str values: the first differing code point decides, a proper
\* prefix is smaller.
RECURSIVE StrLess(_, _)
StrLess(s, t) ==
    IF t = <<>> THEN FALSE
    ELSE IF s = <<>> THEN TRUE
    ELSE IF Head(s) = Head(t) THEN StrLess(Tail(s), Tail(t))
    ELSE Ord(Head(s)) < Ord(Head(t))

StrLeq(s, t) == s = t \/ StrLess(s, t)

\* sorted(keys): the ascending sequence of a finite set of str values.
MinStr(S) == CHOOSE x \in S : \A y \in S : StrLeq(x, y)

RECURSIVE SortedStrs(_)
SortedFrom(S, m) == <<m>> \o SortedStrs(S \ {m})

SortedStrs(S) == IF S = {} THEN <<>> ELSE SortedFrom(S, MinStr(S))

\* Decimal digits of a natural number, without padding.
RECURSIVE NatStr(_)
NatStr(n) ==
    IF n < 10 THEN <<Digits[n + 1]>>
    ELSE NatStr(n \div 10) \o <<Digits[(n % 10) + 1]>>

RECURSIVE ZeroPad(_, _)
ZeroPad(s, width) == IF Len(s) >= width THEN s ELSE ZeroPad(<<"0">> \o s, width)

AllDigits(s) == \A i \in 1..Len(s) : IsDigit(s[i])

\* int(s) for a non-empty run of digits.
RECURSIVE DigitsVal(_)
DigitsVal(s) ==
    IF s = <<>> THEN 0
    ELSE 10 * DigitsVal(SubSeq(s, 1, Len(s) - 1)) + DigitVal(s[Len(s)])

\* str.strip(): blanks removed at both ends.
RECURSIVE Strip(_)
Strip(s) ==
    IF s = <<>> THEN s
    ELSE IF Head(s) = " " THEN Strip(Tail(s))
    ELSE IF s[Len(s)] = " " THEN Strip(SubSeq(s, 1, Len(s) - 1))
    ELSE s

\* str.replace(" ", "").replace(",", ".")
RECURSIVE Replaced(_)
Replaced(s) ==
    IF s = <<>> THEN s
    ELSE IF Head(s) = " " THEN Replaced(Tail(s))
    ELSE IF Head(s) = "," THEN <<".">> \o Replaced(Tail(s))
    ELSE <<Head(s)>> \o Replaced(Tail(s))

\* Position of the first occurrence of c in s, 0 when there is none.
IndexOf(s, c) ==
    IF \E i \in 1..Len(s) : s[i] = c
    THEN CHOOSE i \in 1..Len(s) : s[i] = c /\ \A j \in 1..(i - 1) : s[j] # c
    ELSE 0

(***************************************************************************)
(* datetime.date: the calendar                                             *)
(***************************************************************************)
IsLeap(y) == (y % 4 = 0) /\ ((y % 100 # 0) \/ (y % 400 = 0))

DaysInMonth(y, m) ==
    IF m = 2 THEN (IF IsLeap(y) THEN 29 ELSE 28)
    ELSE IF m \in {4, 6, 9, 11} THEN 30 ELSE 31

RECURSIVE DaysBeforeMonth(_, _)
DaysBeforeMonth(y, m) ==
    IF m = 1 THEN 0 ELSE DaysBeforeMonth(y, m - 1) + DaysInMonth(y, m - 1)

DaysBeforeYear(y) ==
    365 * (y - 1) + ((y - 1) \div 4) - ((y - 1) \div 100) + ((y - 1) \div 400)

ValidYMD(y, m, d) ==
    /\ y \in 1..9999
    /\ m \in 1..12
    /\ d \in 1..DaysInMonth(y, m)

\* date(y, m, d).toordinal()
ToOrdinal(y, m, d) == DaysBeforeYear(y) + DaysBeforeMonth(y, m) + d

\* date.fromordinal(n) as [y, m, d]
YearOf(n) ==
    CHOOSE yy \in ((n \div 366) - 1)..((n \div 365) + 1) :
        yy >= 1 /\ DaysBeforeYear(yy) < n /\ n <= DaysBeforeYear(yy + 1)

MonthOf(y, r) ==
    CHOOSE mm \in 1..12 :
        DaysBeforeMonth(y, mm) < r /\ r <= DaysBeforeMonth(y, mm) + DaysInMonth(y, mm)

\* The r-th day of year y, in month m.
DayOfMonth(y, m, r) == [y |-> y, m |-> m, d |-> r - DaysBeforeMonth(y, m)]

DayOfYear(y, r) == DayOfMonth(y, MonthOf(y, r), r)

DayInYear(n, y) == DayOfYear(y, n - DaysBeforeYear(y))

FromOrdinal(n) == DayInYear(n, YearOf(n))

\* date.strftime("%d.%m.%Y")
DMYText(t) ==
    ZeroPad(NatStr(t.d), 2) \o <<".">> \o ZeroPad(NatStr(t.m), 2) \o <<".">>
        \o ZeroPad(NatStr(t.y), 4)

StrfDMY(n) == DMYText(FromOrdinal(n))

\* date.isoformat()
YMDText(t) ==
    ZeroPad(NatStr(t.y), 4) \o <<"-">> \o ZeroPad(NatStr(t.m), 2) \o <<"-">>
        \o ZeroPad(NatStr(t.d), 2)

IsoFormat(n) == YMDText(FromOrdinal(n))

NoDate == 0

\* The three fields of a text split at the separator sep, <<>> unless there are
\* exactly three.
SplitSecond(first, rest, sep, j) ==
    IF j = 0 \/ IndexOf(SubSeq(rest, j + 1, Len(rest)), sep) # 0 THEN <<>>
    ELSE <<first, SubSeq(rest, 1, j - 1), SubSeq(rest, j + 1, Len(rest))>>

SplitRest(first, rest, sep) == SplitSecond(first, rest, sep, IndexOf(rest, sep))

SplitFirst(s, sep, i) ==
    IF i = 0 THEN <<>>
    ELSE SplitRest(SubSeq(s, 1, i - 1), SubSeq(s, i + 1, Len(s)), sep)

SplitThree(s, sep) == SplitFirst(s, sep, IndexOf(s, sep))

\* A %d or %m field: one or two digits.
ShortField(f) == Len(f) \in {1, 2} /\ AllDigits(f)

\* A %Y field: exactly four digits.
YearField(f) == Len(f) = 4 /\ AllDigits(f)

\* The ordinal of fields y, m, d when they name a calendar day, else NoDate.
NumbersDate(y, m, d) == IF ValidYMD(y, m, d) THEN ToOrdinal(y, m, d) ELSE NoDate

FieldsDate(yf, mf, df) ==
    IF YearField(yf) /\ ShortField(mf) /\ ShortField(df)
    THEN NumbersDate(DigitsVal(yf), DigitsVal(mf), DigitsVal(df))
    ELSE NoDate

\* datetime.strptime(s, "%d.%m.%Y").date(); NoDate stands for ValueError.
DMYDate(p) == IF p = <<>> THEN NoDate ELSE FieldsDate(p[3], p[2], p[1])

StrpDMY(s) == DMYDate(SplitThree(s, "."))

\* datetime.strptime(s, "%Y-%m-%d"); NoDate stands for ValueError.
YMDDate(p) == IF p = <<>> THEN NoDate ELSE FieldsDate(p[1], p[2], p[3])

StrpYMD(s) == YMDDate(SplitThree(s, "-"))

\* datetime.fromisoformat(s).date() for the keys date.isoformat() wrote.
FromIso(s) ==
    IF Len(s) = 10 /\ s[5] = "-" /\ s[8] = "-"
    THEN FieldsDate(SubSeq(s, 1, 4), SubSeq(s, 6, 7), SubSeq(s, 9, 10))
    ELSE NoDate

(***************************************************************************)
(* decimal.Decimal: [sign, int, exp] is (-1)^sign * int * 10^exp           *)
(***************************************************************************)
\* Stands for decimal.InvalidOperation raised by the constructor.
NoDecimal == [sign |-> -1, int |-> 0, exp |-> 0]

RECURSIVE Pow10(_)
Pow10(n) == IF n <= 0 THEN 1 ELSE 10 * Pow10(n - 1)

\* "%+d" % n
SignedStr(n) == IF n < 0 THEN <<"-">> \o NatStr(-n) ELSE <<"+">> \o NatStr(n)

RECURSIVE Zeros(_)
Zeros(n) == IF n <= 0 THEN <<>> ELSE <<"0">> \o Zeros(n - 1)

\* Mutant: the price is written with four decimals at most, the rest cut off.
DecimalStr_FourPlaces(p) ==
    IF p.exp >= -4 THEN NatStr(p.int) \o <<"E">> \o SignedStr(p.exp)
    ELSE NatStr(p.int \div Pow10(-4 - p.exp)) \o <<"E", "-", "4">>

\* Decimal.__str__: scientific notation when the exponent is positive or the
\* value has more than six leading fractional zeros.
StrIntPart(digits, dotplace) ==
    IF dotplace <= 0 THEN <<"0">>
    ELSE IF dotplace >= Len(digits) THEN digits \o Zeros(dotplace - Len(digits))
    ELSE SubSeq(digits, 1, dotplace)

StrFracPart(digits, dotplace) ==
    IF dotplace <= 0 THEN <<".">> \o Zeros(-dotplace) \o digits
    ELSE IF dotplace >= Len(digits) THEN <<>>
    ELSE <<".">> \o SubSeq(digits, dotplace + 1, Len(digits))

StrExpPart(leftdigits, dotplace) ==
    IF leftdigits = dotplace THEN <<>> ELSE <<"E">> \o SignedStr(leftdigits - dotplace)

StrParts(sign, digits, leftdigits, dotplace) ==
    (IF sign = 1 THEN <<"-">> ELSE <<>>) \o StrIntPart(digits, dotplace)
        \o StrFracPart(digits, dotplace) \o StrExpPart(leftdigits, dotplace)

StrLeft(p, digits, leftdigits) ==
    StrParts(p.sign, digits, leftdigits,
             IF p.exp <= 0 /\ leftdigits > -6 THEN leftdigits ELSE 1)

StrDigits(p, digits) == StrLeft(p, digits, p.exp + Len(digits))

DecimalStr(p) == StrDigits(p, NatStr(p.int))

\* The value of an exponent field [-+]?\d+ as <<ok, n>>.
ExpDigits(neg, ds) ==
    IF ds = <<>> \/ ~AllDigits(ds) THEN <<FALSE, 0>>
    ELSE <<TRUE, IF neg THEN -DigitsVal(ds) ELSE DigitsVal(ds)>>

ExpField(s) ==
    IF s # <<>> /\ Head(s) \in {"+", "-"} THEN ExpDigits(Head(s) = "-", Tail(s))
    ELSE ExpDigits(FALSE, s)

\* Decimal(s) for the finite numbers of the constructor's grammar
\*   [-+]? (\d+ (\.\d*)? | \.\d+) (E [-+]? \d+)?
\* after the surrounding blanks are dropped; anything else is NoDecimal.
ParseParts(sign, intp, frac, ex) ==
    IF /\ ex[1]
       /\ AllDigits(intp) /\ AllDigits(frac)
       /\ intp \o frac # <<>>
    THEN [sign |-> sign, int |-> DigitsVal(intp \o frac), exp |-> ex[2] - Len(frac)]
    ELSE NoDecimal

ParseAtDot(sign, mant, ex, dot) ==
    ParseParts(sign,
               IF dot = 0 THEN mant ELSE SubSeq(mant, 1, dot - 1),
               IF dot = 0 THEN <<>> ELSE SubSeq(mant, dot + 1, Len(mant)),
               ex)

ParseMantissa(sign, mant, ex) == ParseAtDot(sign, mant, ex, IndexOf(mant, "."))

ParseAtExp(sign, body, e) ==
    ParseMantissa(sign,
                  IF e = 0 THEN body ELSE SubSeq(body, 1, e - 1),
                  IF e = 0 THEN <<TRUE, 0>> ELSE ExpField(SubSeq(body, e + 1, Len(body))))

ParseBody(sign, body) ==
    ParseAtExp(sign, body,
               IF IndexOf(body, "E") # 0 THEN IndexOf(body, "E") ELSE IndexOf(body, "e"))

ParseStripped(s) ==
    IF s # <<>> /\ Head(s) \in {"+", "-"}
    THEN ParseBody(IF Head(s) = "-" THEN 1 ELSE 0, Tail(s))
    ELSE ParseBody(0, s)

ParseDecimal(text) == ParseStripped(Strip(text))

\* Decimal(cell.text.strip().replace(" ", "").replace(",", "."))
CellDecimal(text) == ParseDecimal(Replaced(Strip(text)))

\* format_price: f"{float(price):.4f}".replace(".", ","), for a price with at
\* most four decimals (the value is then printed digit for digit).
PrintScaled(sign, scaled) ==
    (IF sign = 1 THEN <<"-">> ELSE <<>>)
        \o NatStr(scaled \div 10000) \o <<",">> \o ZeroPad(NatStr(scaled % 10000), 4)

format_price(p) == PrintScaled(p.sign, p.int * Pow10(p.exp + 4))

Metals == {"gold", "silver", "platinum", "palladium"}

\* A Python dict is a function; {} is the function of the empty domain.
EmptyDict == <<>>

\* dict.update
DictUpdate(a, b) ==
    [k \in (DOMAIN a) \cup (DOMAIN b) |-> IF k \in DOMAIN b THEN b[k] ELSE a[k]]

\* d[k] = v
DictSet(a, key, v) ==
    [k \in (DOMAIN a) \cup {key} |-> IF k = key THEN v ELSE a[k]]

(***************************************************************************)
(* ParserCBRF._quarter_ranges                                              *)
(***************************************************************************)
\* timedelta(days=89): a sub-range is its first day and the 89 after it.
QuarterDays == 89

\* Mutant: timedelta(days=90), a sub-range of 91 days.
QuarterEnd_Long(curr, end) ==
    IF curr + QuarterDays + 1 > end THEN end ELSE curr + QuarterDays + 1

\* q_end = curr + 89 days, cut back to end.
QuarterEnd(curr, end) ==
    IF curr + QuarterDays > end THEN end ELSE curr + QuarterDays

\* Mutant: the loop tests its condition after the pass, not before it.
RECURSIVE QuarterLoop_TestAfter(_, _, _)
TestAfterPass(curr, end, acc, q_end) ==
    IF q_end + 1 <= end
    THEN QuarterLoop_TestAfter(q_end + 1, end, Append(acc, <<StrfDMY(curr), StrfDMY(q_end)>>))
    ELSE Append(acc, <<StrfDMY(curr), StrfDMY(q_end)>>)

QuarterLoop_TestAfter(curr, end, acc) == TestAfterPass(curr, end, acc, QuarterEnd(curr, end))

\* The while loop: one (from, to) pair of "%d.%m.%Y" texts per pass.
RECURSIVE QuarterLoop(_, _, _)
\* One pass: the pair is appended and curr moves to the day after q_end.
QuarterPass(curr, end, acc, q_end) ==
    QuarterLoop(q_end + 1, end, Append(acc, <<StrfDMY(curr), StrfDMY(q_end)>>))

QuarterLoop(curr, end, acc) ==
    IF curr <= end THEN QuarterPass(curr, end, acc, QuarterEnd(curr, end)) ELSE acc

_quarter_ranges(start, end) == QuarterLoop(start, end, <<>>)

(***************************************************************************)
(* ParserCBRF._parse_chunk                                                 *)
(***************************************************************************)
\* One pass of the row loop over the <td> texts of a row: the row is recorded
\* only when it has five cells, a date and four prices; any exception leaves
\* the chunk as it was (continue).
RowRecord(acc, d, prices) ==
    IF d = NoDate \/ \E m \in Metals : prices[m] = NoDecimal
    THEN acc
    ELSE DictSet(acc, IsoFormat(d), prices)

ParseRow(acc, cells) ==
    IF Len(cells) # 5 THEN acc
    ELSE RowRecord(acc, StrpDMY(Strip(cells[1])),
                   [gold      |-> CellDecimal(cells[2]),
                    silver    |-> CellDecimal(cells[3]),
                    platinum  |-> CellDecimal(cells[4]),
                    palladium |-> CellDecimal(cells[5])])

\* Mutant: the except branch leaves the loop (break) instead of going on.
RECURSIVE ParseRows_Break(_, _)
ParseRows_Break(acc, rows) ==
    IF rows = <<>> THEN acc
    ELSE IF /\ Len(Head(rows)) = 5
            /\ \/ StrpDMY(Strip(Head(rows)[1])) = NoDate
               \/ \E i \in 2..5 : CellDecimal(Head(rows)[i]) = NoDecimal
         THEN acc
         ELSE ParseRows_Break(ParseRow(acc, Head(rows)), Tail(rows))

RECURSIVE ParseRows(_, _)
ParseRows(acc, rows) ==
    IF rows = <<>> THEN acc
    ELSE ParseRows(ParseRow(acc, Head(rows)), Tail(rows))

\* soup is [table: whether the document has a table of class "data",
\*          rows: the <td> texts of each of its <tr>].
_parse_chunk(doc) ==
    IF ~doc.table THEN EmptyDict ELSE ParseRows(EmptyDict, doc.rows)

(***************************************************************************)
(* ParserCBRF._fill_data_gaps                                              *)
(***************************************************************************)
\* Mutant: current is set by the first published day only.
FillKey_KeepFirst(sparse, acc, iso) ==
    IF iso \in DOMAIN sparse
        THEN [filled       |-> DictSet(acc.filled, iso, sparse[iso]),
              current      |-> IF DOMAIN acc.current = {} THEN sparse[iso]
                               ELSE acc.current,
              filled_dates |-> acc.filled_dates]
        ELSE [filled       |-> DictSet(acc.filled, iso, acc.current),
              current      |-> acc.current,
              filled_dates |-> acc.filled_dates \cup {iso}]

\* Mutant: every day of the walk is reported as synthesized.
FillKey_MarkAll(sparse, acc, iso) ==
    IF iso \in DOMAIN sparse
        THEN [filled       |-> DictSet(acc.filled, iso, sparse[iso]),
              current      |-> sparse[iso],
              filled_dates |-> acc.filled_dates \cup {iso}]
        ELSE [filled       |-> DictSet(acc.filled, iso, acc.current),
              current      |-> acc.current,
              filled_dates |-> acc.filled_dates \cup {iso}]

\* One pass of the day loop for the day of key iso; acc is [filled, current,
\* filled_dates].
FillKey(sparse, acc, iso) ==
    IF iso \in DOMAIN sparse
        THEN [filled       |-> DictSet(acc.filled, iso, sparse[iso]),
              current      |-> sparse[iso],
              filled_dates |-> acc.filled_dates]
        ELSE [filled       |-> DictSet(acc.filled, iso, acc.current),
              current      |-> acc.current,
              filled_dates |-> IF DOMAIN acc.current # {}
                               THEN acc.filled_dates \cup {iso}
                               ELSE acc.filled_dates]

FillDay(sparse, acc, d) == FillKey(sparse, acc, IsoFormat(d))

RECURSIVE FillLoop(_, _, _, _)
FillLoop(sparse, acc, d, end) ==
    IF d <= end THEN FillLoop(sparse, FillDay(sparse, acc, d), d + 1, end)
    ELSE acc

\* First and last key of sorted(raw.keys()), each through fromisoformat.
SpanOf(sorted_dates) ==
    <<FromIso(sorted_dates[1]), FromIso(sorted_dates[Len(sorted_dates)])>>

FillSpan(sparse) == SpanOf(SortedStrs(DOMAIN sparse))

FillOver(sparse, span) ==
    FillLoop(sparse,
             [filled |-> EmptyDict, current |-> EmptyDict, filled_dates |-> {}],
             span[1], span[2])

FillReturn(acc) == [filled |-> acc.filled, filled_dates |-> acc.filled_dates]

_fill_data_gaps(sparse) ==
    IF DOMAIN sparse = {}
    THEN [filled |-> EmptyDict, filled_dates |-> {}]
    ELSE FillReturn(FillOver(sparse, FillSpan(sparse)))

(***************************************************************************)
(* ParserCBRF._save_to_json, MetalPricesCBRF._load and the queries         *)
(***************************************************************************)
\* The file does not exist.
NoFile == [missing |-> TRUE]

\* The JSON object written: date -> metal -> str(price).
_save_to_json(series) ==
    [d \in DOMAIN series |-> [m \in DOMAIN series[d] |-> DecimalStr(series[d][m])]]

\* The dict built from the JSON object read: date -> metal -> Decimal(text).
_load(json) ==
    [d \in DOMAIN json |-> [m \in DOMAIN json[d] |-> ParseDecimal(json[d][m])]]

FormatRecord(prices) == [m \in DOMAIN prices |-> format_price(prices[m])]

None == [kind |-> "None"]

prices_by_date(series, iso_date) ==
    IF iso_date \in DOMAIN series
    THEN [kind |-> "prices", prices |-> FormatRecord(series[iso_date])]
    ELSE None

LastRecord(series, last) ==
    [kind |-> "last", prices |-> FormatRecord(series[last]), date |-> last]

\* Mutant: the first key of the sorted keys is taken, not the last.
FirstOf(series, sorted) == LastRecord(series, sorted[1])

prices_last_First(series) ==
    IF DOMAIN series = {} THEN None ELSE FirstOf(series, SortedStrs(DOMAIN series))

LastOf(series, sorted) == LastRecord(series, sorted[Len(sorted)])

prices_last(series) ==
    IF DOMAIN series = {} THEN None ELSE LastOf(series, SortedStrs(DOMAIN series))

\* Whether the record of date d is appended: the comparison is between str.
InRange(lo, d, hi) == StrLeq(lo, d) /\ StrLeq(d, hi)

RECURSIVE RangeLoop(_, _, _, _)
RangeLoop(series, keys, lo, hi) ==
    IF keys = <<>> THEN <<>>
    ELSE (IF InRange(lo, Head(keys), hi)
          THEN <<[date |-> Head(keys), prices |-> FormatRecord(series[Head(keys)])]>>
          ELSE <<>>)
         \o RangeLoop(series, Tail(keys), lo, hi)

prices_range(series, lo, hi) == RangeLoop(series, SortedStrs(DOMAIN series), lo, hi)

\* _input_date: the text typed, stripped, is returned as typed when strptime
\* accepts it.
InputAccepted(txt) == StrpYMD(Strip(txt)) # NoDate

(***************************************************************************)
(* Specification of the range chunker: _quarter_ranges applied to every    *)
(* pair of days of a span that starts at the collector's first day and     *)
(* runs over the turn of the year.                                         *)
(***************************************************************************)
\* start_date = date(2008, 7, 1)
FirstDay == ToOrdinal(2008, 7, 1)

MaxSpan == 200

SpanDays == FirstDay..(FirstDay + MaxSpan)

ChunkInit ==
    /\ pc = "call"
    /\ start_date \in SpanDays
    /\ end_date \in SpanDays
    /\ ranges = <<>>
    /\ idx = 0 /\ attempt = 0 /\ raw = EmptyDict /\ log = <<>> /\ result = FALSE
    /\ soup = <<>> /\ chunk = EmptyDict /\ data = EmptyDict /\ filled_dates = {}
    /\ file = NoFile /\ db = EmptyDict /\ d_from = <<>> /\ d_to = <<>> /\ out = None

CallQuarterRanges ==
    /\ pc = "call"
    /\ ranges' = _quarter_ranges(start_date, end_date)
    /\ pc' = "returned"
    /\ UNCHANGED <<start_date, end_date, idx, attempt, raw, log, result, soup, chunk,
                   data, filled_dates, file, db, d_from, d_to, out>>

ChunkNext == CallQuarterRanges

ChunkSpec == ChunkInit /\ [][ChunkNext]_vars

\* The dates a returned pair names, read back with strptime("%d.%m.%Y").
RangeFrom(i) == StrpDMY(ranges[i][1])
RangeTo(i) == StrpDMY(ranges[i][2])

\* C1: for start <= end the chunker returns a non-empty sequence of pairs that
\* begins at start, ends at end, has from_i <= to_i and at most QuarterDays + 1
\* (90) days in every pair, and to_i + 1 day = from_{i+1} for consecutive pairs;
\* for start = end it is the single pair (start, start).
C1_ChunksPartition ==
    (pc = "returned" /\ start_date <= end_date) =>
        /\ Len(ranges) >= 1
        /\ RangeFrom(1) = start_date
        /\ RangeTo(Len(ranges)) = end_date
        /\ \A i \in 1..Len(ranges) :
              /\ RangeFrom(i) # NoDate /\ RangeTo(i) # NoDate
              /\ RangeFrom(i) <= RangeTo(i)
              /\ RangeTo(i) - RangeFrom(i) + 1 <= QuarterDays + 1
        /\ \A i \in 1..(Len(ranges) - 1) : RangeTo(i) + 1 = RangeFrom(i + 1)
        /\ (start_date = end_date =>
              Len(ranges) = 1 /\ RangeFrom(1) = start_date /\ RangeTo(1) = start_date)

\* A span of three sub-ranges, the first two of full length, that crosses the
\* turn of the year.
C1_Witness ==
    /\ pc = "returned"
    /\ start_date < end_date
    /\ Len(ranges) = 3
    /\ RangeTo(1) - RangeFrom(1) = QuarterDays
    /\ RangeFrom(3) > ToOrdinal(2008, 12, 31)

\* C9 as stated: a call with start > end ends in failure (an exception) rather
\* than in a returned sequence.
C9_FailsWhenReversed ==
    (pc # "call" /\ start_date > end_date) => pc = "raised"

\* C9, amended: the chunker returns for every pair of days, and what it
\* returns for start > end is the empty sequence (and only then).
C9_EmptyWhenReversed ==
    pc # "call" => (pc = "returned" /\ (ranges = <<>> <=> start_date > end_date))

C9_Witness ==
    pc = "returned" /\ start_date > end_date /\ ranges = <<>>

(***************************************************************************)
(* Specification of the gap filler: _fill_data_gaps applied to every       *)
(* sparse series over a few days around a turn of the month and around the *)
(* turn of the year, the keys written as _parse_chunk writes them.         *)
(***************************************************************************)
Dec(sign, int, exp) == [sign |-> sign, int |-> int, exp |-> exp]

RecordA ==
    [gold |-> Dec(0, 600000, -2), silver |-> Dec(0, 7125, -2),
     platinum |-> Dec(0, 30001, -1), palladium |-> Dec(0, 2950, 0)]

RecordB ==
    [gold |-> Dec(0, 601050, -2), silver |-> Dec(0, 7125, -2),
     platinum |-> Dec(0, 29990, -1), palladium |-> Dec(0, 2951, 0)]

FillWidth == 6

FillBases == {ToOrdinal(2008, 2, 27), ToOrdinal(2008, 12, 29)}

\* The dict with key isoformat(d) and value f[d] for every day d of f.
SeriesOf(f) ==
    [k \in {IsoFormat(d) : d \in DOMAIN f} |->
        f[CHOOSE d \in DOMAIN f : IsoFormat(d) = k]]

FillInit ==
    /\ pc = "call"
    /\ \E base \in FillBases :
         \E K \in SUBSET (base..(base + FillWidth - 1)) :
           \E f \in [K -> {RecordA, RecordB}] : raw = SeriesOf(f)
    /\ data = EmptyDict /\ filled_dates = {}
    /\ start_date = 0 /\ end_date = 0 /\ ranges = <<>>
    /\ idx = 0 /\ attempt = 0 /\ log = <<>> /\ result = FALSE
    /\ soup = <<>> /\ chunk = EmptyDict
    /\ file = NoFile /\ db = EmptyDict /\ d_from = <<>> /\ d_to = <<>> /\ out = None

CallFillDataGaps ==
    /\ pc = "call"
    /\ \E g \in {_fill_data_gaps(raw)} :
         /\ data' = g.filled
         /\ filled_dates' = g.filled_dates
    /\ pc' = "returned"
    /\ UNCHANGED <<start_date, end_date, ranges, idx, attempt, raw, log, result, soup,
                   chunk, file, db, d_from, d_to, out>>

FillNext == CallFillDataGaps

FillSpec == FillInit /\ [][FillNext]_vars

\* The days the sparse series has a record for, and the span they cover.
Known == {StrpYMD(k) : k \in DOMAIN raw}
FirstKnown == CHOOSE d \in Known : \A e \in Known : d <= e
LastKnown == CHOOSE d \in Known : \A e \in Known : e <= d
LatestKnown(d) == CHOOSE e \in Known : e <= d /\ \A x \in Known : x <= d => x <= e

\* C2: the dense series of a non-empty sparse series has exactly the days from
\* the first to the last known one as its keys, and under each the record of
\* the latest known day not after it (the day's own record when it has one).
C2_ForwardFill ==
    (pc = "returned" /\ DOMAIN raw # {}) =>
        /\ DOMAIN data = {IsoFormat(d) : d \in FirstKnown..LastKnown}
        /\ \A d \in FirstKnown..LastKnown :
              data[IsoFormat(d)] = raw[IsoFormat(LatestKnown(d))]

\* A gap of two days between two published days with different records.
C2_Witness ==
    /\ pc = "returned"
    /\ \E d \in Known :
         /\ d + 3 \in Known /\ d + 1 \notin Known /\ d + 2 \notin Known
         /\ raw[IsoFormat(d)] # raw[IsoFormat(d + 3)]
         /\ data[IsoFormat(d + 2)] = raw[IsoFormat(d)]
         /\ d > FirstKnown

\* C3: the synthesized dates are exactly the days between the first and the
\* last known day that the sparse series has no record for.
C3_SynthesizedSet ==
    pc = "returned" =>
        filled_dates = IF DOMAIN raw = {} THEN {}
                       ELSE {IsoFormat(d) : d \in (FirstKnown..LastKnown) \ Known}

\* Published days on both sides of and between two separate gaps.
C3_Witness ==
    /\ pc = "returned"
    /\ Cardinality(filled_dates) >= 2
    /\ \E d \in Known : d - 1 \notin Known /\ d + 1 \notin Known
                        /\ FirstKnown < d /\ d < LastKnown

(***************************************************************************)
(* Specification of the row parser: _parse_chunk applied to every document *)
(* of up to MaxRows rows drawn from a table of well-formed and malformed   *)
(* rows.  Each text's meaning is written down beside it, so the parser is *)
(* checked against the table and not against itself.                       *)
(***************************************************************************)
\* Price texts as the source prints them, with the Decimal each one is.
Gold1 == [text |-> <<"6", " ", "0", "0", "0", ",", "0", "0">>, dec |-> Dec(0, 600000, -2)]
Gold2 == [text |-> <<"6", " ", "0", "1", "0", ",", "5", "0">>, dec |-> Dec(0, 601050, -2)]
Silver1 == [text |-> <<"7", "1", ",", "2", "5">>, dec |-> Dec(0, 7125, -2)]
Platinum1 == [text |-> <<" ", "3", " ", "0", "0", "0", ",", "1", " ">>, dec |-> Dec(0, 30001, -1)]
Platinum2 == [text |-> <<"2", " ", "9", "9", "9", ",", "0">>, dec |-> Dec(0, 29990, -1)]
Palladium1 == [text |-> <<"2", "9", "5", "0">>, dec |-> Dec(0, 2950, 0)]
Palladium2 == [text |-> <<"2", "9", "5", "1">>, dec |-> Dec(0, 2951, 0)]

\* Texts that are no price.
BadPriceA == <<"1", "2", ",", "3", "x">>
BadPriceB == <<"-">>

\* A date text that names no calendar day (31 February).
BadDate == <<"3", "1", ".", "0", "2", ".", "2", "0", "0", "8">>

Day1 == ToOrdinal(2008, 12, 30)
Day2 == ToOrdinal(2008, 12, 31)

\* A well-formed row of day d and the record it stands for.
GoodRow(d, g, s, pt, pd) ==
    [cells |-> <<StrfDMY(d), g.text, s.text, pt.text, pd.text>>,
     good |-> TRUE, day |-> d,
     rec |-> [gold |-> g.dec, silver |-> s.dec, platinum |-> pt.dec,
              palladium |-> pd.dec]]

\* A row that must contribute nothing.
BadRow(cells) == [cells |-> cells, good |-> FALSE, day |-> NoDate, rec |-> EmptyDict]

RowTable ==
    << GoodRow(Day1, Gold1, Silver1, Platinum1, Palladium1),
       GoodRow(Day2, Gold2, Silver1, Platinum2, Palladium2),
       GoodRow(Day1, Gold2, Silver1, Platinum2, Palladium2),
       BadRow(<<BadDate, Gold1.text, Silver1.text, Platinum1.text, Palladium1.text>>),
       BadRow(<<StrfDMY(Day2), Gold1.text, Silver1.text, BadPriceA, Palladium1.text>>),
       BadRow(<<StrfDMY(Day1), BadPriceB, Silver1.text, Platinum1.text, Palladium1.text>>),
       BadRow(<<StrfDMY(Day2), Gold1.text, Silver1.text, Platinum1.text>>),
       BadRow(<<>>) >>

RowTexts == {RowTable[i].cells : i \in DOMAIN RowTable}

\* What the table says about a row.
Label(cells) == RowTable[CHOOSE i \in DOMAIN RowTable : RowTable[i].cells = cells]

MaxRows == 3

RowSeqs == UNION {[1..n -> RowTexts] : n \in 0..MaxRows}

ParseInit ==
    /\ pc = "call"
    /\ \/ soup = [table |-> FALSE, rows |-> <<>>]
       \/ \E rows \in RowSeqs : soup = [table |-> TRUE, rows |-> rows]
    /\ chunk = EmptyDict
    /\ start_date = 0 /\ end_date = 0 /\ ranges = <<>>
    /\ idx = 0 /\ attempt = 0 /\ raw = EmptyDict /\ log = <<>> /\ result = FALSE
    /\ data = EmptyDict /\ filled_dates = {}
    /\ file = NoFile /\ db = EmptyDict /\ d_from = <<>> /\ d_to = <<>> /\ out = None

CallParseChunk ==
    /\ pc = "call"
    /\ chunk' = _parse_chunk(soup)
    /\ pc' = "returned"
    /\ UNCHANGED <<start_date, end_date, ranges, idx, attempt, raw, log, result, soup,
                   data, filled_dates, file, db, d_from, d_to, out>>

ParseNext == CallParseChunk

ParseSpec == ParseInit /\ [][ParseNext]_vars

\* The rows of the document that the table calls well formed.
GoodAt == {i \in 1..Len(soup.rows) : Label(soup.rows[i]).good}

\* C10: a malformed row contributes no record and does not stop the parse:
\* the result has a record for the date of every well-formed row, before or
\* after a malformed one (that of the last such row of the date), has no other
\* date, and every record has the four metals, each a Decimal.
C10_MalformedRowsSkipped ==
    pc = "returned" =>
        /\ \A i \in GoodAt :
              LET r == Label(soup.rows[i])
              IN  /\ IsoFormat(r.day) \in DOMAIN chunk
                  /\ (\A j \in GoodAt : Label(soup.rows[j]).day = r.day => j <= i)
                        => chunk[IsoFormat(r.day)] = r.rec
        /\ \A k \in DOMAIN chunk :
              /\ \E i \in GoodAt : IsoFormat(Label(soup.rows[i]).day) = k
              /\ DOMAIN chunk[k] = Metals
              /\ \A m \in Metals : chunk[k][m] # NoDecimal

\* A malformed row between two well-formed rows of different dates.
C10_Witness ==
    /\ pc = "returned"
    /\ Len(soup.rows) = 3
    /\ GoodAt = {1, 3}
    /\ Len(soup.rows[2]) = 5
    /\ Cardinality(DOMAIN chunk) = 2

(***************************************************************************)
(* Specification of a collection run: ParserCBRF.start as main() calls it, *)
(* with no file on disk.  Every request to the source may be answered      *)
(* (status 200, with any of the Responses), refused (another status) or    *)
(* fail in the transport (an exception).                                   *)
(***************************************************************************)
\* for attempt in range(3)
MaxAttempts == 3

\* Documents the source may answer with: no table; a header and a record; only
\* malformed rows; records around a malformed row.
Responses ==
    << [table |-> FALSE, rows |-> <<>>],
       [table |-> TRUE, rows |-> <<RowTable[8].cells, RowTable[1].cells>>],
       [table |-> TRUE, rows |-> <<RowTable[4].cells, RowTable[5].cells>>],
       [table |-> TRUE,
        rows |-> <<RowTable[2].cells, RowTable[6].cells, RowTable[3].cells>>] >>

\* date.today(): the day before the first day (a clock set wrong), the first
\* day, and days further on, up to a span of three sub-ranges.
TodayStride == 45

MaxTodaySteps == 4

Todays == {FirstDay - 1} \cup {FirstDay + k * TodayStride : k \in 0..MaxTodaySteps}

\* ranges = self._quarter_ranges(start_date, end_date), for each today.
RangesFor == [today \in Todays |-> _quarter_ranges(FirstDay, today)]

RunInit ==
    /\ pc = "start"
    /\ start_date = FirstDay
    /\ end_date \in Todays
    /\ ranges = <<>> /\ idx = 0 /\ attempt = 0 /\ raw = EmptyDict /\ log = <<>>
    /\ result = FALSE
    /\ soup = <<>> /\ chunk = EmptyDict /\ data = EmptyDict /\ filled_dates = {}
    /\ file = NoFile /\ db = EmptyDict /\ d_from = <<>> /\ d_to = <<>> /\ out = None

\* start, up to the loop over the sub-ranges.
StartBegin ==
    /\ pc = "start"
    /\ ranges' = RangesFor[end_date]
    /\ raw' = EmptyDict
    /\ idx' = 1
    /\ attempt' = 0
    /\ pc' = "fetch"
    /\ UNCHANGED <<start_date, end_date, log, result, soup, chunk, data, filled_dates,
                   file, db, d_from, d_to, out>>

Sent(outcome, r) ==
    Append(log, [chunk |-> idx, try |-> attempt + 1, outcome |-> outcome, soup |-> r])

\* Mutant: a chunk that got no answer ends the loop.
AfterSkip_Abort(i) == Len(ranges) + 1

\* The chunk start() turns to when _get_soup returned None for chunk i: the
\* else branch only prints, and the for loop goes on to the next pair.
AfterSkip(i) == i + 1

\* _get_soup: a request answered with status 200; the document is parsed and
\* merged into raw, and start() goes on to the next chunk.
RequestAnswered ==
    /\ pc = "fetch" /\ idx <= Len(ranges) /\ attempt < MaxAttempts
    /\ \E r \in DOMAIN Responses :
         /\ log' = Sent("200", r)
         /\ soup' = Responses[r]
         /\ \E parsed \in {_parse_chunk(Responses[r])} :
              /\ chunk' = parsed
              /\ raw' = DictUpdate(raw, parsed)
    /\ idx' = idx + 1
    /\ attempt' = 0
    /\ UNCHANGED <<pc, start_date, end_date, ranges, result, data, filled_dates, file,
                   db, d_from, d_to, out>>

\* _get_soup: a request answered with another status: "retry", sleep, next pass.
RequestRefused ==
    /\ pc = "fetch" /\ idx <= Len(ranges) /\ attempt < MaxAttempts
    /\ log' = Sent("failed", 0)
    /\ attempt' = attempt + 1
    /\ UNCHANGED <<pc, start_date, end_date, ranges, idx, raw, result, soup, chunk, data,
                   filled_dates, file, db, d_from, d_to, out>>

\* _get_soup: requests.get raised: the error is printed, sleep, next pass.
RequestFailed ==
    /\ pc = "fetch" /\ idx <= Len(ranges) /\ attempt < MaxAttempts
    /\ log' = Sent("failed", 0)
    /\ attempt' = attempt + 1
    /\ UNCHANGED <<pc, start_date, end_date, ranges, idx, raw, result, soup, chunk, data,
                   filled_dates, file, db, d_from, d_to, out>>

\* _get_soup returned None after the last pass: the chunk is skipped.
ChunkSkipped ==
    /\ pc = "fetch" /\ idx <= Len(ranges) /\ attempt = MaxAttempts
    /\ idx' = AfterSkip(idx)
    /\ attempt' = 0
    /\ UNCHANGED <<pc, start_date, end_date, ranges, raw, log, result, soup, chunk, data,
                   filled_dates, file, db, d_from, d_to, out>>

\* Mutant: the series is saved before the test for an empty collection.
SavedFirst(sparse, g) ==
    [result |-> DOMAIN sparse # {}, data |-> g.filled,
     filled_dates |-> g.filled_dates, file |-> _save_to_json(g.filled)]

StartTail_SaveFirst(sparse, onDisk) == SavedFirst(sparse, _fill_data_gaps(sparse))

\* start, after the loop: nothing collected is failure, before anything is
\* filled or saved; otherwise the gaps are filled and the series is saved.
Collected(g) ==
    [result |-> TRUE, data |-> g.filled, filled_dates |-> g.filled_dates,
     file |-> _save_to_json(g.filled)]

StartTail(sparse, onDisk) ==
    IF DOMAIN sparse = {}
    THEN [result |-> FALSE, data |-> EmptyDict, filled_dates |-> {}, file |-> onDisk]
    ELSE Collected(_fill_data_gaps(sparse))

StartEnd ==
    /\ pc = "fetch" /\ idx > Len(ranges)
    /\ \E t \in {StartTail(raw, file)} :
         /\ result' = t.result
         /\ data' = t.data
         /\ filled_dates' = t.filled_dates
         /\ file' = t.file
    /\ pc' = "done"
    /\ UNCHANGED <<start_date, end_date, ranges, idx, attempt, raw, log, soup, chunk, db,
                   d_from, d_to, out>>

RunNext ==
    \/ StartBegin
    \/ RequestAnswered
    \/ RequestRefused
    \/ RequestFailed
    \/ ChunkSkipped
    \/ StartEnd

RunSpec == RunInit /\ [][RunNext]_vars

\* The loop over the sub-ranges.
ChunkLoop == RequestAnswered \/ RequestRefused \/ RequestFailed \/ ChunkSkipped

\* start() is one sequential thread: it enters its loop, and in the loop every
\* request ends (answered, refused, or failed at the latest by its timeout of
\* 30 s) and every sleep ends.
RunFairSpec == RunSpec /\ WF_vars(StartBegin) /\ WF_vars(ChunkLoop)

\* Whether a response holds a row the table calls well formed.
Yields(r) ==
    /\ Responses[r].table
    /\ \E i \in 1..Len(Responses[r].rows) : Label(Responses[r].rows[i]).good

LogOf(c) == SelectSeq(log, LAMBDA e : e.chunk = c)

\* C4: start reports failure exactly when no chunk of the run yielded a record,
\* and a run that reports failure has left no file.
C4_FailureIffNoRecord ==
    pc = "done" =>
        /\ result = FALSE <=>
              ~\E i \in 1..Len(log) : log[i].outcome = "200" /\ Yields(log[i].soup)
        /\ result = FALSE => file = NoFile

\* A successful run with a skipped chunk, an empty chunk and a chunk of records.
C4_Witness ==
    /\ pc = "done" /\ result = TRUE /\ file # NoFile
    /\ \E c \in 1..Len(ranges) :
         Len(LogOf(c)) = MaxAttempts /\ LogOf(c)[MaxAttempts].outcome # "200"
    /\ \E i \in 1..Len(log) : log[i].outcome = "200" /\ ~Yields(log[i].soup)

\* What the requests sent so far must look like: chunks in the chunker's order,
\* each with tries 1, 2, ... up to MaxAttempts, none after an answered one, and
\* no chunk begun before the one before it was answered or had all its tries.
LogInOrder ==
    /\ \A i \in 1..(Len(log) - 1) : log[i].chunk <= log[i + 1].chunk
    /\ \A c \in 1..Len(ranges) :
         LET l == LogOf(c)
         IN  /\ Len(l) <= MaxAttempts
             /\ \A t \in 1..Len(l) : l[t].try = t
             /\ \A t \in 1..(Len(l) - 1) : l[t].outcome # "200"
    /\ \A i \in 1..Len(log) :
         /\ log[i].chunk \in 1..Len(ranges)
         /\ \A c \in 1..(log[i].chunk - 1) :
              /\ LogOf(c) # <<>>
              /\ \/ LogOf(c)[Len(LogOf(c))].outcome = "200"
                 \/ Len(LogOf(c)) = MaxAttempts

\* Every chunk was requested, and given up only after MaxAttempts tries.
LoopEnded == pc # "start" /\ idx > Len(ranges)

AllChunksTried ==
    \A c \in 1..Len(ranges) :
        /\ LogOf(c) # <<>>
        /\ \/ LogOf(c)[Len(LogOf(c))].outcome = "200"
           \/ Len(LogOf(c)) = MaxAttempts

\* C5: a chunk gets at most three tries, one after another, the first answered
\* one being the last; a chunk whose tries all failed is skipped and the chunks
\* after it are still tried, in order; and the run reaches the end of the
\* chunk sequence.
C5_RetryThenSkip ==
    /\ [](LogInOrder /\ (LoopEnded => AllChunksTried))
    /\ <>LoopEnded

\* A finished run whose first chunk was skipped after three failed tries and
\* whose second chunk was answered at the second try.
C5_Witness ==
    /\ pc = "done"
    /\ Len(ranges) >= 2
    /\ Len(LogOf(1)) = MaxAttempts /\ LogOf(1)[MaxAttempts].outcome # "200"
    /\ Len(LogOf(2)) = 2 /\ LogOf(2)[2].outcome = "200"

(***************************************************************************)
(* Specification of the store: a dense series is saved by _save_to_json    *)
(* and read back by _load.  The prices range over signs, coefficients and  *)
(* exponents on both sides of every branch of Decimal.__str__.             *)
(***************************************************************************)
MaxExp == 8

Coefficients == {0, 5, 7125, 600000}

StorePrices ==
    {Dec(sign, int, exp) : sign \in {0, 1}, int \in Coefficients, exp \in (-MaxExp)..2}

StoreInit ==
    /\ pc = "save"
    /\ \E a \in StorePrices, b \in StorePrices :
         data = SeriesOf([d \in {Day1, Day2} |->
                    IF d = Day1
                    THEN [gold |-> a, silver |-> b, platinum |-> b, palladium |-> a]
                    ELSE RecordA])
    /\ file = NoFile /\ db = EmptyDict
    /\ start_date = 0 /\ end_date = 0 /\ ranges = <<>>
    /\ idx = 0 /\ attempt = 0 /\ raw = EmptyDict /\ log = <<>> /\ result = FALSE
    /\ soup = <<>> /\ chunk = EmptyDict /\ filled_dates = {}
    /\ d_from = <<>> /\ d_to = <<>> /\ out = None

\* ParserCBRF._save_to_json
Save ==
    /\ pc = "save"
    /\ file' = _save_to_json(data)
    /\ pc' = "saved"
    /\ UNCHANGED <<start_date, end_date, ranges, idx, attempt, raw, log, result, soup,
                   chunk, data, filled_dates, db, d_from, d_to, out>>

\* MetalPricesCBRF() with no file on disk: _load raises FileNotFoundError.
LoadNoFile ==
    /\ pc = "save"
    /\ file = NoFile
    /\ pc' = "raised"
    /\ UNCHANGED <<start_date, end_date, ranges, idx, attempt, raw, log, result, soup,
                   chunk, data, filled_dates, file, db, d_from, d_to, out>>

\* MetalPricesCBRF(): _load reads the file; dates[0] of an empty mapping raises
\* IndexError.
Load ==
    /\ pc = "saved"
    /\ db' = _load(file)
    /\ pc' = IF DOMAIN file = {} THEN "raised" ELSE "loaded"
    /\ UNCHANGED <<start_date, end_date, ranges, idx, attempt, raw, log, result, soup,
                   chunk, data, filled_dates, file, d_from, d_to, out>>

StoreNext == Save \/ LoadNoFile \/ Load

StoreSpec == StoreInit /\ [][StoreNext]_vars

\* C6: the series loaded from a freshly saved file has the dates of the saved
\* series and, for every date and metal, the price that was saved, digit for
\* digit (same sign, coefficient and exponent).
C6_SaveLoadRoundTrip ==
    pc = "loaded" =>
        /\ DOMAIN db = DOMAIN data
        /\ \A d \in DOMAIN data :
              /\ DOMAIN db[d] = DOMAIN data[d]
              /\ \A m \in DOMAIN data[d] : db[d][m] = data[d][m]

\* A loaded series with a price written in scientific notation, a negative
\* price and a price with trailing zeros.
C6_Witness ==
    /\ pc = "loaded"
    /\ \E d \in DOMAIN data :
         /\ data[d].gold.exp < -6 /\ data[d].gold.int = 5 /\ data[d].gold.sign = 1
         /\ "E" \in {file[d].gold[i] : i \in 1..Len(file[d].gold)}
         /\ data[d].silver = Dec(0, 600000, -2)
         /\ db[d].silver = Dec(0, 600000, -2)

(***************************************************************************)
(* Specification of a query session: the menu of main() over a loaded      *)
(* series, the dates being whatever _input_date lets through.              *)
(***************************************************************************)
QueryWidth == 5

QueryBase == ToOrdinal(2008, 12, 30)

QueryDays == QueryBase..(QueryBase + QueryWidth - 1)

\* The record of day d in the series, and the same record as the facade
\* prints it (four decimals, a comma).
RecordOn(d) == IF d % 2 = 0 THEN RecordA ELSE RecordB

PrintedA ==
    [gold |-> <<"6", "0", "0", "0", ",", "0", "0", "0", "0">>, silver |-> <<"7", "1", ",", "2", "5", "0", "0">>,
     platinum |-> <<"3", "0", "0", "0", ",", "1", "0", "0", "0">>, palladium |-> <<"2", "9", "5", "0", ",", "0", "0", "0", "0">>]

PrintedB ==
    [gold |-> <<"6", "0", "1", "0", ",", "5", "0", "0", "0">>, silver |-> <<"7", "1", ",", "2", "5", "0", "0">>,
     platinum |-> <<"2", "9", "9", "9", ",", "0", "0", "0", "0">>, palladium |-> <<"2", "9", "5", "1", ",", "0", "0", "0", "0">>]

PrintedOn(d) == IF d % 2 = 0 THEN PrintedA ELSE PrintedB

\* The series of the file the collector wrote for the days lo..hi, as _load
\* reads it; and the empty series the facade is constructed with.
LoadedSeries ==
    {EmptyDict} \cup
    {_load(_save_to_json(SeriesOf([d \in lo..hi |-> RecordOn(d)]))) :
        lo \in QueryDays, hi \in QueryDays}

\* A day written year-month-day without leading zeros.
UnpaddedText(t) == NatStr(t.y) \o <<"-">> \o NatStr(t.m) \o <<"-">> \o NatStr(t.d)

Unpadded(n) == UnpaddedText(FromOrdinal(n))

\* What the user may type: the days around the series, with and without
\* leading zeros, and a day that does not exist.
Typed ==
    {IsoFormat(d) : d \in (QueryBase - 1)..(QueryBase + QueryWidth)}
        \cup {Unpadded(d) : d \in (QueryBase - 1)..(QueryBase + QueryWidth)}
        \cup {<<"2", "0", "0", "9", "-", "0", "2", "-", "3", "1">>}

QueryInit ==
    /\ pc = "menu"
    /\ db \in LoadedSeries
    /\ d_from = <<>> /\ d_to = <<>> /\ out = None
    /\ start_date = 0 /\ end_date = 0 /\ ranges = <<>>
    /\ idx = 0 /\ attempt = 0 /\ raw = EmptyDict /\ log = <<>> /\ result = FALSE
    /\ soup = <<>> /\ chunk = EmptyDict /\ data = EmptyDict /\ filled_dates = {}
    /\ file = NoFile

\* Choice 1: a date is asked for until one is accepted, then looked up.
ChoiceDate ==
    /\ pc = "menu"
    /\ \E txt \in Typed :
         /\ InputAccepted(txt)
         /\ d_from' = Strip(txt)
         /\ out' = prices_by_date(db, Strip(txt))
    /\ pc' = "date"
    /\ UNCHANGED <<start_date, end_date, ranges, idx, attempt, raw, log, result, soup,
                   chunk, data, filled_dates, file, db, d_to>>

\* Choice 2: the latest prices.
ChoiceLast ==
    /\ pc = "menu"
    /\ out' = prices_last(db)
    /\ pc' = "last"
    /\ UNCHANGED <<start_date, end_date, ranges, idx, attempt, raw, log, result, soup,
                   chunk, data, filled_dates, file, db, d_from, d_to>>

\* Choice 3: two dates are asked for, then the range is looked up.
ChoiceRange ==
    /\ pc = "menu"
    /\ \E t1 \in Typed, t2 \in Typed :
         /\ InputAccepted(t1) /\ InputAccepted(t2)
         /\ d_from' = Strip(t1)
         /\ d_to' = Strip(t2)
         /\ out' = [kind |-> "range", rows |-> prices_range(db, Strip(t1), Strip(t2))]
    /\ pc' = "range"
    /\ UNCHANGED <<start_date, end_date, ranges, idx, attempt, raw, log, result, soup,
                   chunk, data, filled_dates, file, db>>

\* The answer is printed and the loop is back at the menu.
Printed ==
    /\ pc \in {"date", "last", "range"}
    /\ pc' = "menu"
    /\ d_from' = <<>> /\ d_to' = <<>> /\ out' = None
    /\ UNCHANGED <<start_date, end_date, ranges, idx, attempt, raw, log, result, soup,
                   chunk, data, filled_dates, file, db>>

QueryNext == ChoiceDate \/ ChoiceLast \/ ChoiceRange \/ Printed

QuerySpec == QueryInit /\ [][QueryNext]_vars

\* The days the loaded series has, and those of them from lo to hi.
SeriesDays == {StrpYMD(k) : k \in DOMAIN db}
DaysWithin(lo, hi) == {d \in SeriesDays : lo <= d /\ d <= hi}

\* Whether rows are the records of exactly the days S, each once, ascending.
RowsAre(rows, S) ==
    /\ Len(rows) = Cardinality(S)
    /\ {StrpYMD(rows[i].date) : i \in 1..Len(rows)} = S
    /\ \A i \in 1..(Len(rows) - 1) : StrpYMD(rows[i].date) < StrpYMD(rows[i + 1].date)
    /\ \A i \in 1..Len(rows) : rows[i].prices = PrintedOn(StrpYMD(rows[i].date))

\* C7 as stated: for every pair of dates from, to the range lookup returns the
\* records of exactly the days d of the series with from <= d <= to, each
\* once, in ascending order (none when there is no such day).
C7_RangeInclusive ==
    pc = "range" => RowsAre(out.rows, DaysWithin(StrpYMD(d_from), StrpYMD(d_to)))

\* The same for dates typed with their leading zeros (YYYY-MM-DD), where the
\* order of the texts is the order of the days.
C7_RangeOfPaddedDates ==
    (pc = "range" /\ Len(d_from) = 10 /\ Len(d_to) = 10) =>
        RowsAre(out.rows, DaysWithin(StrpYMD(d_from), StrpYMD(d_to)))

\* C8: for a non-empty series the latest lookup returns the maximum date of
\* the series with the record stored under it (as printed); for an empty
\* series it returns no record and no date.
C8_LastIsMaximum ==
    pc = "last" =>
        IF DOMAIN db = {} THEN out = None
        ELSE /\ out.kind = "last"
             /\ StrpYMD(out.date) \in SeriesDays
             /\ \A d \in SeriesDays : d <= StrpYMD(out.date)
             /\ out.date \in DOMAIN db
             /\ out.prices = PrintedOn(StrpYMD(out.date))

\* The latest lookup on a series that runs over the turn of the year.
C8_Witness ==
    /\ pc = "last"
    /\ Cardinality(DOMAIN db) >= 3
    /\ out.kind = "last"
    /\ out.date = IsoFormat(ToOrdinal(2009, 1, 2))
    /\ IsoFormat(ToOrdinal(2008, 12, 31)) \in DOMAIN db

====
